---- MODULE Spec2Model ----
(***************************************************************************)
(* Credential exchange (issue-credential) of aries-cloudagent-python:      *)
(* the v1.0 administrative routes and the v2.0 credential proposal handler *)
(* over a store of credential exchange records.  The routes and the        *)
(* proposal handler are translated from their source; the credential       *)
(* manager, the record's save_error_state, internal_error and the other    *)
(* inbound handlers are not part of the source tree at hand and are        *)
(* modelled from the design document (section 4.1 table, section 4.2).     *)
(***************************************************************************)
EXTENDS Integers, Sequences, FiniteSets, TLC

\* ------------------------------------------------------------------ bounds
\* number of exchange records ever created (exchange ids are never reused)
MaxRec == 1
\* exchanges in progress side by side, where their isolation is examined
MaxPair == 2

Ids == 1 .. MaxRec

\* ------------------------------------------------------------- vocabulary
Null == "null"
Absent == "absent"

STATE_PROPOSAL_SENT == "proposal_sent"
STATE_PROPOSAL_RECEIVED == "proposal_received"
STATE_OFFER_SENT == "offer_sent"
STATE_OFFER_RECEIVED == "offer_received"
STATE_REQUEST_SENT == "request_sent"
STATE_REQUEST_RECEIVED == "request_received"
STATE_ISSUED == "credential_issued"
STATE_CREDENTIAL_RECEIVED == "credential_received"
STATE_ACKED == "done"
STATE_ABANDONED == "abandoned"

States ==
  { STATE_PROPOSAL_SENT, STATE_PROPOSAL_RECEIVED, STATE_OFFER_SENT,
    STATE_OFFER_RECEIVED, STATE_REQUEST_SENT, STATE_REQUEST_RECEIVED,
    STATE_ISSUED, STATE_CREDENTIAL_RECEIVED, STATE_ACKED, STATE_ABANDONED }

Terminal == { STATE_ACKED, STATE_ABANDONED }

ROLE_ISSUER == "issuer"
ROLE_HOLDER == "holder"
INITIATOR_SELF == "self"
INITIATOR_EXTERNAL == "external"

\* the one connection of the agent, and message payloads
ConnId == "conn-1"
Payloads == { "A", "B" }

\* failure injected into the collaborators of one manager call
FailKinds == { "none", "crypto", "storage" }

\* outcomes of an operation
OK == "ok"
StateConflict == "StateConflict"
RoleMismatch == "RoleMismatch"
CryptoOrLedgerFailure == "CryptoOrLedgerFailure"
StorageFailure == "StorageFailure"
NotFound == "NotFound"
ConnectionNotReady == "ConnectionNotReady"
\* faults of the program itself: an attribute read on None, a read of a
\* local variable that was never bound
AttributeError == "AttributeError"
UnboundLocalError == "UnboundLocalError"
\* the wallet has no DID to offer from, or no endpoint for it
WalletFailure == "WalletFailure"

\* --------------------------------------------------------------- the record
NoRec ==
  [ state |-> Absent, role |-> Null, initiator |-> Null,
    connection_id |-> Null, thread_id |-> Null,
    credential_proposal_dict |-> Null, credential_offer_dict |-> Null,
    credential_request_dict |-> Null, credential_dict |-> Null,
    credential_id |-> Null,
    auto_offer |-> FALSE, auto_issue |-> FALSE, auto_remove |-> FALSE,
    error_msg |-> Null ]

\* V10CredentialExchange(...): a record under construction, not yet saved
\* the connection given to the constructor is dropped
NewRecUnbound(conn, thread, initiator, role, proposal, aOffer, aIssue, aRemove) ==
  [ NoRec EXCEPT !.state = Null, !.role = role, !.initiator = initiator,
                 !.thread_id = thread,
                 !.credential_proposal_dict = proposal,
                 !.auto_offer = aOffer, !.auto_issue = aIssue,
                 !.auto_remove = aRemove ]

NewRec(conn, thread, initiator, role, proposal, aOffer, aIssue, aRemove) ==
  [ NoRec EXCEPT !.state = Null, !.role = role, !.initiator = initiator,
                 !.connection_id = conn, !.thread_id = thread,
                 !.credential_proposal_dict = proposal,
                 !.auto_offer = aOffer, !.auto_issue = aIssue,
                 !.auto_remove = aRemove ]

\* message ids of locally created first messages (one per exchange id)
LocalThreadNames == << "m1", "m2", "m3", "m4" >>
LocalThread(id) == LocalThreadNames[id]
\* thread ids of the counterparty's first messages
RemoteThreadNames == << "t1", "t2", "t3", "t4" >>
Threads == { RemoteThreadNames[i] : i \in Ids }
AllThreads == Threads \cup { LocalThread(i) : i \in Ids }

MSG_PROPOSAL == "credential_proposal"
MSG_OFFER == "credential_offer"
MSG_REQUEST == "credential_request"
MSG_ISSUE == "credential_issue"
MSG_ACK == "credential_ack"
MSG_PROBLEM_REPORT == "problem_report"

\* ------------------------------------------------- the credential manager
\* A manager call returns the outcome, the record as persisted (or the
\* record it was given when it failed) and the outbound message.
MgrOk(rec, msg) == [ err |-> OK, rec |-> rec, msg |-> msg ]
MgrErr(e, rec) == [ err |-> e, rec |-> rec, msg |-> Null ]

FailErr(fail) ==
  IF fail = "crypto" THEN CryptoOrLedgerFailure ELSE StorageFailure

\* the state of the record is not looked at
GuardedRoleOnly(rec, role, states, fail, okres) ==
  IF role # Null /\ rec.role # role THEN MgrErr(RoleMismatch, rec)
  ELSE IF fail # "none" THEN MgrErr(FailErr(fail), rec)
  ELSE okres

\* role is checked before state; collaborators run only after both pass
Guarded(rec, role, states, fail, okres) ==
  IF role # Null /\ rec.role # role THEN MgrErr(RoleMismatch, rec)
  ELSE IF rec.state \notin states THEN MgrErr(StateConflict, rec)
  ELSE IF fail # "none" THEN MgrErr(FailErr(fail), rec)
  ELSE okres

\* the new record is not bound to the connection
create_proposal_unbound(conn, thread, proposal, aRemove, fail) ==
  LET rec == NewRec(Null, thread, INITIATOR_SELF, ROLE_HOLDER, proposal,
                    FALSE, FALSE, aRemove)
  IN  Guarded(rec, ROLE_HOLDER, { Null }, fail,
        MgrOk([ rec EXCEPT !.state = STATE_PROPOSAL_SENT ], MSG_PROPOSAL))

create_proposal(conn, thread, proposal, aRemove, fail) ==
  LET rec == NewRec(conn, thread, INITIATOR_SELF, ROLE_HOLDER, proposal,
                    FALSE, FALSE, aRemove)
  IN  Guarded(rec, ROLE_HOLDER, { Null }, fail,
        MgrOk([ rec EXCEPT !.state = STATE_PROPOSAL_SENT ], MSG_PROPOSAL))

\* a proposal delivered again is applied again to the record of its thread
receive_proposal_again(existing, conn, thread, proposal, cfg) ==
  LET rec == NewRec(conn, thread, INITIATOR_EXTERNAL, ROLE_ISSUER, proposal,
                    cfg.auto_offer, cfg.auto_issue, FALSE)
  IN  IF existing # NoRec
      THEN MgrOk([ existing EXCEPT !.state = STATE_PROPOSAL_RECEIVED,
                                   !.credential_proposal_dict = proposal ],
                 Null)
      ELSE MgrOk([ rec EXCEPT !.state = STATE_PROPOSAL_RECEIVED ], Null)

\* existing: the stored record of the proposal's thread, NoRec when there
\* is none; a proposal whose thread has its record already is a redelivery
\* and is refused
receive_proposal(existing, conn, thread, proposal, cfg) ==
  LET rec == NewRec(conn, thread, INITIATOR_EXTERNAL, ROLE_ISSUER, proposal,
                    cfg.auto_offer, cfg.auto_issue, FALSE)
  IN  IF existing # NoRec THEN MgrErr(StateConflict, existing)
      ELSE MgrOk([ rec EXCEPT !.state = STATE_PROPOSAL_RECEIVED ], Null)

\* the offer is marked as started by this agent
create_offer_self_initiated(rec, counter_proposal, fail) ==
  LET proposal == IF counter_proposal # Null THEN counter_proposal
                  ELSE rec.credential_proposal_dict
  IN  Guarded(rec, ROLE_ISSUER, { STATE_PROPOSAL_RECEIVED, Null }, fail,
        MgrOk([ rec EXCEPT !.state = STATE_OFFER_SENT,
                           !.initiator = INITIATOR_SELF,
                           !.credential_proposal_dict = proposal,
                           !.credential_offer_dict = proposal ],
              MSG_OFFER))

create_offer(rec, counter_proposal, fail) ==
  LET proposal == IF counter_proposal # Null THEN counter_proposal
                  ELSE rec.credential_proposal_dict
  IN  Guarded(rec, ROLE_ISSUER, { STATE_PROPOSAL_RECEIVED, Null }, fail,
        MgrOk([ rec EXCEPT !.state = STATE_OFFER_SENT,
                           !.credential_proposal_dict = proposal,
                           !.credential_offer_dict = proposal ],
              MSG_OFFER))

\* prepare_send: a new issuer record for the proposal, offered at once; its
\* automation follows the agent's configuration
prepare_send(connection_id, thread, proposal, auto_remove, cfg, fail) ==
  create_offer(NewRec(connection_id, thread, INITIATOR_SELF, ROLE_ISSUER,
                      proposal, FALSE, cfg.auto_issue, auto_remove),
               Null, fail)

\* rec is the holder's record of the thread, or a new one for a free offer
receive_offer(rec, offer) ==
  Guarded(rec, ROLE_HOLDER, { STATE_PROPOSAL_SENT, Null }, "none",
    MgrOk([ rec EXCEPT !.state = STATE_OFFER_RECEIVED,
                       !.credential_offer_dict = offer ], Null))

create_request(rec, fail) ==
  Guarded(rec, ROLE_HOLDER, { STATE_OFFER_RECEIVED }, fail,
    MgrOk([ rec EXCEPT !.state = STATE_REQUEST_SENT,
                       !.credential_request_dict = rec.credential_offer_dict ],
          MSG_REQUEST))

\* a request delivered again is taken again
receive_request_again(rec, request) ==
  Guarded(rec, ROLE_ISSUER, { STATE_OFFER_SENT, STATE_REQUEST_RECEIVED },
          "none",
    MgrOk([ rec EXCEPT !.state = STATE_REQUEST_RECEIVED,
                       !.credential_request_dict = request ], Null))

receive_request(rec, request) ==
  Guarded(rec, ROLE_ISSUER, { STATE_OFFER_SENT }, "none",
    MgrOk([ rec EXCEPT !.state = STATE_REQUEST_RECEIVED,
                       !.credential_request_dict = request ], Null))

issue_credential(rec, fail) ==
  Guarded(rec, ROLE_ISSUER, { STATE_REQUEST_RECEIVED }, fail,
    MgrOk([ rec EXCEPT !.state = STATE_ISSUED,
                       !.credential_dict = rec.credential_request_dict ],
          MSG_ISSUE))

receive_credential(rec, credential) ==
  Guarded(rec, ROLE_HOLDER, { STATE_REQUEST_SENT }, "none",
    MgrOk([ rec EXCEPT !.state = STATE_CREDENTIAL_RECEIVED,
                       !.credential_dict = credential ], Null))

store_credential(rec, credential_id, fail) ==
  Guarded(rec, ROLE_HOLDER, { STATE_CREDENTIAL_RECEIVED }, fail,
    MgrOk([ rec EXCEPT !.credential_id =
                          IF credential_id # Null THEN credential_id
                          ELSE "generated" ], Null))

\* CREDENTIAL_RECEIVED counts only after the credential has been stored
AckReady(rec) ==
  \/ rec.state = STATE_ISSUED
  \/ rec.state = STATE_CREDENTIAL_RECEIVED /\ rec.credential_id # Null

\* reaching done deletes the record, whatever its auto_remove
send_credential_ack_removes(rec, fail) ==
  IF ~AckReady(rec) THEN MgrErr(StateConflict, rec)
  ELSE IF fail # "none" THEN MgrErr(FailErr(fail), rec)
  ELSE MgrOk(NoRec, MSG_ACK)

\* reaching done deletes the record when auto_remove is set
send_credential_ack(rec, fail) ==
  IF ~AckReady(rec) THEN MgrErr(StateConflict, rec)
  ELSE IF fail # "none" THEN MgrErr(FailErr(fail), rec)
  ELSE MgrOk(IF rec.auto_remove THEN NoRec
             ELSE [ rec EXCEPT !.state = STATE_ACKED ], MSG_ACK)

\* a report is made for a record in any state
create_problem_report_any_state(rec, fail) ==
  Guarded(rec, Null, States, fail,
    MgrOk([ rec EXCEPT !.state = STATE_ABANDONED ], MSG_PROBLEM_REPORT))

create_problem_report(rec, fail) ==
  Guarded(rec, Null, States \ Terminal, fail,
    MgrOk([ rec EXCEPT !.state = STATE_ABANDONED ], MSG_PROBLEM_REPORT))

\* the report is taken and the record left as it is
receive_problem_report_ignored(rec) ==
  Guarded(rec, Null, States \ Terminal, "none", MgrOk(rec, Null))

receive_problem_report(rec) ==
  Guarded(rec, Null, States \ Terminal, "none",
    MgrOk([ rec EXCEPT !.state = STATE_ABANDONED ], Null))

\* err.message: the text of a failure (its wording is not modelled)
Message(err) == "error"

\* the state is cleared together with the reason being set
save_error_state_null(rec, reason) ==
  [ rec EXCEPT !.state = Null, !.error_msg = reason ]

\* V10CredentialExchange.save_error_state: the stored record keeps its
\* last persisted state and gains the reason
save_error_state(rec, reason) == [ rec EXCEPT !.error_msg = reason ]

\* problem_report.v1_0.internal_error: reports the failure to the connection
\* of the record it is given (if any) and raises the HTTP error
internal_error(rec) ==
  IF rec # NoRec THEN << MSG_PROBLEM_REPORT >> ELSE << >>

\* -------------------------------------------------------------------- state
VARIABLES
  store,      \* exchange id -> stored record, NoRec when there is none
  nextId,     \* the next exchange id to be generated
  settings,   \* process-wide automation defaults
  last,       \* the last operation: name, record id, outcome, messages
              \* dispatched, number of store writes, whether the failure
              \* was raised to the caller, the counter-proposal it was given,
              \* the stored record before it
  tasks       \* requests in progress, one per concurrent task: where the
              \* task is in its route, the record it has retrieved, and
              \* how it ended

vars == << store, nextId, settings, last, tasks >>

\* concurrent tasks of the administrative server
Procs == { "p1", "p2" }

IdleTask ==
  [ pc |-> "idle", op |-> Null, id |-> 0, rec |-> NoRec, stale |-> FALSE,
    fail |-> Null, result |-> Null, sent |-> << >> ]

Settings == [ auto_offer : BOOLEAN, auto_issue : BOOLEAN ]

\* an operation that ends with a failure raises it to its caller, unless a
\* handler has caught it (DoneQuietly)
Before(id) == IF id \in DOMAIN store THEN store[id] ELSE NoRec

DoneArg(op, id, result, sent, writes, arg) ==
  last' = [ op |-> op, id |-> id, result |-> result, sent |-> sent,
            writes |-> writes, raised |-> (result # OK), arg |-> arg,
            pre |-> Before(id) ]

Done(op, id, result, sent, writes) ==
  DoneArg(op, id, result, sent, writes, Null)

DoneQuietly(op, id, result, sent, writes) ==
  last' = [ op |-> op, id |-> id, result |-> result, sent |-> sent,
            writes |-> writes, raised |-> FALSE, arg |-> Null,
            pre |-> Before(id) ]

\* a save that writes the record under every exchange id
PutEverywhere(id, rec) == store' = [ i \in DOMAIN store |-> rec ]

Put(id, rec) == store' = [ store EXCEPT ![id] = rec ]

Exists(id) == store[id] # NoRec

ThreadKnown(t) == \E i \in DOMAIN store : store[i].thread_id = t
RecOfThread(t) == CHOOSE i \in DOMAIN store : store[i].thread_id = t

Init ==
  /\ store = [ i \in Ids |-> NoRec ]
  /\ nextId = 1
  /\ settings \in Settings
  /\ last = [ op |-> "init", id |-> 0, result |-> OK, sent |-> << >>,
              writes |-> 0, raised |-> FALSE, arg |-> Null, pre |-> NoRec ]
  /\ tasks = [ p \in Procs |-> IdleTask ]

\* ------------------------------------------------------------ environment
\* the operator changes a process-wide default
ChangeSettings ==
  /\ \E cfg \in Settings :
       /\ cfg # settings
       /\ settings' = cfg
  /\ UNCHANGED << store, nextId, last, tasks >>

\* ConnRecord.retrieve_by_id followed by the is_ready test of a route
\* (ready: what is_ready reads at the time of the call)
ConnCheck(connection_id, ready) ==
  IF connection_id = Null THEN NotFound
  ELSE IF ~ready THEN ConnectionNotReady
  ELSE OK

\* an operation that fails without touching the store
Reject(op, id, result, sent) ==
  /\ Done(op, id, result, sent, 0)
  /\ UNCHANGED store

\* the except clause without its save_error_state
ErrorStatePathNoSave(op, id, rec, err) ==
  /\ UNCHANGED store
  /\ Done(op, id, err, internal_error(rec), 0)

\* the protocol message of a route
RouteMessage(op) ==
  CASE op = "send_bound_offer" -> MSG_OFFER
    [] op = "send_request" -> MSG_REQUEST
    [] OTHER -> MSG_ISSUE

\* the except clause falls through to the dispatch of the message
ErrorStatePathDispatches(op, id, rec, err) ==
  /\ Put(id, save_error_state(rec, Message(err)))
  /\ Done(op, id, err, << RouteMessage(op) >>, 1)

\* the except clause of the bound-offer, send-request and issue routes:
\* save_error_state on the retrieved record, then internal_error
ErrorStatePath(op, id, rec, err) ==
  /\ Put(id, save_error_state(rec, Message(err)))
  /\ Done(op, id, err, internal_error(rec), 1)

\* V10CredentialExchange.retrieve_by_id, as a route calls it: the storage
\* answers, or fails with a storage error other than not-found
RetrieveKinds == { "none", "storage" }

\* the except clause of the bound-offer, send-request and issue routes when
\* that storage error was raised by the retrieval itself: cred_ex_record is
\* still None and save_error_state is called on it
ErrorStatePathNoRecord(op, id) == Reject(op, id, AttributeError, << >>)

\* --------------------------------------------------- administrative routes
\* Inputs of a request (body fields, what is_ready reads) are parameters;
\* the outcome of the collaborators of a manager call (fail) is drawn where
\* the call is made.
BodyFlags == { "absent", "true", "false" }
CredIds == { Null, "wallet-1" }
Counter == Payloads \cup { Null }

\* only StorageError and BaseModelError are caught, and turned into a bad
\* request; the offer is returned to the caller, not dispatched
credential_exchange_create ==
  LET op == "create"
  IN  /\ nextId <= MaxRec
      /\ \E preview \in Payloads, auto_remove \in BOOLEAN,
            fail \in FailKinds :
           LET r == prepare_send(Null, LocalThread(nextId), preview,
                                 auto_remove, settings, fail)
           IN  IF r.err # OK
               THEN Reject(op, 0, r.err, << >>) /\ UNCHANGED nextId
               ELSE /\ Put(nextId, r.rec)
                    /\ nextId' = nextId + 1
                    /\ Done(op, nextId, OK, << >>, 1)
      /\ UNCHANGED << settings, tasks >>

\* StorageError, BaseModelError and CredentialManagerError go to
\* internal_error with the connection record (no exchange record is at
\* hand when prepare_send fails); an issuer or ledger error is not caught
credential_exchange_send(ready) ==
  LET op == "send"
  IN  /\ IF ConnCheck(ConnId, ready) # OK
         THEN Reject(op, 0, ConnCheck(ConnId, ready), << >>)
              /\ UNCHANGED nextId
         ELSE /\ nextId <= MaxRec
              /\ \E preview \in Payloads, auto_remove \in BOOLEAN,
                    fail \in FailKinds :
                   LET r == prepare_send(ConnId, LocalThread(nextId),
                                         preview, auto_remove, settings, fail)
                   IN  IF r.err = CryptoOrLedgerFailure
                       THEN Reject(op, 0, r.err, << >>) /\ UNCHANGED nextId
                       ELSE IF r.err # OK
                       THEN Reject(op, 0, r.err, << MSG_PROBLEM_REPORT >>)
                            /\ UNCHANGED nextId
                       ELSE /\ Put(nextId, r.rec)
                            /\ nextId' = nextId + 1
                            /\ Done(op, nextId, OK, << r.msg >>, 1)
      /\ UNCHANGED << settings, tasks >>

credential_exchange_send_proposal(ready) ==
  LET op == "send_proposal"
  IN  /\ IF ConnCheck(ConnId, ready) # OK
         THEN Reject(op, 0, ConnCheck(ConnId, ready), << >>)
              /\ UNCHANGED nextId
         ELSE /\ nextId <= MaxRec
              /\ \E preview \in Payloads, auto_remove \in BOOLEAN,
                    fail \in { "none", "storage" } :
                   LET r == create_proposal(ConnId, LocalThread(nextId),
                                            preview, auto_remove, fail)
                   IN  IF r.err # OK
                       THEN Reject(op, 0, r.err, << MSG_PROBLEM_REPORT >>)
                            /\ UNCHANGED nextId
                       ELSE /\ Put(nextId, r.rec)
                            /\ nextId' = nextId + 1
                            /\ Done(op, nextId, OK, << r.msg >>, 1)
      /\ UNCHANGED << settings, tasks >>

\* a default of true wins over the value of the request
DefaultOverrides(bodyValue, default) == default \/ bodyValue = "true"

\* body.get("auto_issue", settings default): the body value when the body
\* carries one, the process-wide default otherwise
BodyOrDefault(bodyValue, default) ==
  IF bodyValue = "absent" THEN default ELSE bodyValue = "true"

\* the record is returned as built, the manager is not called
_create_free_offer_unsent(connection_id, thread, auto_issue, auto_remove, preview, fail) ==
  MgrOk(NewRec(connection_id, thread, INITIATOR_SELF, ROLE_ISSUER, preview,
               FALSE, auto_issue, auto_remove), MSG_OFFER)

_create_free_offer(connection_id, thread, auto_issue, auto_remove, preview, fail) ==
  create_offer(NewRec(connection_id, thread, INITIATOR_SELF, ROLE_ISSUER,
                      preview, FALSE, auto_issue, auto_remove),
               Null, fail)

credential_exchange_send_free_offer(ready) ==
  LET op == "send_free_offer"
  IN  /\ IF ConnCheck(ConnId, ready) # OK
         THEN Reject(op, 0, ConnCheck(ConnId, ready), << >>)
              /\ UNCHANGED nextId
         ELSE /\ nextId <= MaxRec
              /\ \E preview \in Payloads, bodyAutoIssue \in BodyFlags,
                    auto_remove \in BOOLEAN, fail \in FailKinds :
                   LET auto_issue ==
                         BodyOrDefault(bodyAutoIssue, settings.auto_issue)
                       r == _create_free_offer(ConnId, LocalThread(nextId),
                                               auto_issue, auto_remove,
                                               preview, fail)
                   IN  IF r.err = StorageFailure
                       THEN Reject(op, 0, r.err, << >>) /\ UNCHANGED nextId
                       ELSE IF r.err # OK
                       THEN Reject(op, 0, r.err, << MSG_PROBLEM_REPORT >>)
                            /\ UNCHANGED nextId
                       ELSE /\ Put(nextId, r.rec)
                            /\ nextId' = nextId + 1
                            /\ DoneArg(op, nextId, OK, << r.msg >>, 1,
                                       bodyAutoIssue)
      /\ UNCHANGED << settings, tasks >>

\* the connection_id of the body, when it has one
BodyConnections == { ConnId, Null }

\* The offer is made for out-of-band use: it is returned in a URL and not
\* dispatched, and the connection (if the body names one) is not tested
\* for readiness.  Without a connection_id the wallet's public DID is used
\* and the record has no connection.  The except clause reads
\* connection_record, which is bound only when the body has a connection_id.
credential_exchange_create_free_offer ==
  LET op == "create_free_offer"
  IN  /\ \E connection_id \in BodyConnections, walletOk \in BOOLEAN :
           IF ~walletOk
           THEN Reject(op, 0, WalletFailure, << >>) /\ UNCHANGED nextId
           ELSE /\ nextId <= MaxRec
                /\ \E preview \in Payloads, bodyAutoIssue \in BodyFlags,
                      auto_remove \in BOOLEAN, fail \in FailKinds :
                     LET auto_issue ==
                           BodyOrDefault(bodyAutoIssue, settings.auto_issue)
                         r == _create_free_offer(connection_id,
                                                 LocalThread(nextId),
                                                 auto_issue, auto_remove,
                                                 preview, fail)
                     IN  IF r.err # OK /\ connection_id = Null
                         THEN Reject(op, 0, UnboundLocalError, << >>)
                              /\ UNCHANGED nextId
                         ELSE IF r.err # OK
                         THEN Reject(op, 0, r.err, << MSG_PROBLEM_REPORT >>)
                              /\ UNCHANGED nextId
                         ELSE /\ Put(nextId, r.rec)
                              /\ nextId' = nextId + 1
                              /\ DoneArg(op, nextId, OK, << >>, 1,
                                         bodyAutoIssue)
      /\ UNCHANGED << settings, tasks >>

\* the route's own state test, made before the manager is called
BoundOfferStateOk(rec) == rec.state = STATE_PROPOSAL_RECEIVED

credential_exchange_send_bound_offer(id, ready) ==
  LET op == "send_bound_offer"
      rec == store[id]
      conn == ConnCheck(rec.connection_id, ready)
  IN  /\ \E failRetrieve \in RetrieveKinds :
         IF failRetrieve # "none" THEN ErrorStatePathNoRecord(op, id)
         ELSE IF ~Exists(id) THEN Reject(op, id, NotFound, << >>)
         ELSE IF ~BoundOfferStateOk(rec)
         THEN ErrorStatePath(op, id, rec, StateConflict)
         ELSE IF conn = ConnectionNotReady THEN Reject(op, id, conn, << >>)
         ELSE IF conn = NotFound THEN ErrorStatePath(op, id, rec, NotFound)
         ELSE \E counter_proposal \in Counter, fail \in FailKinds :
                LET r == create_offer(rec, counter_proposal, fail)
                IN  IF r.err # OK THEN ErrorStatePath(op, id, rec, r.err)
                    ELSE /\ Put(id, r.rec)
                         /\ DoneArg(op, id, OK, << r.msg >>, 1,
                                    counter_proposal)
      /\ UNCHANGED << nextId, settings, tasks >>

credential_exchange_send_request(id, ready) ==
  LET op == "send_request"
      rec == store[id]
      conn == ConnCheck(rec.connection_id, ready)
  IN  /\ \E failRetrieve \in RetrieveKinds :
         IF failRetrieve # "none" THEN ErrorStatePathNoRecord(op, id)
         ELSE IF ~Exists(id) THEN Reject(op, id, NotFound, << >>)
         ELSE IF conn = ConnectionNotReady THEN Reject(op, id, conn, << >>)
         ELSE IF conn = NotFound THEN ErrorStatePath(op, id, rec, NotFound)
         ELSE \E fail \in FailKinds :
                LET r == create_request(rec, fail)
                IN  IF r.err # OK THEN ErrorStatePath(op, id, rec, r.err)
                    ELSE Put(id, r.rec) /\ Done(op, id, OK, << r.msg >>, 1)
      /\ UNCHANGED << nextId, settings, tasks >>

credential_exchange_issue(id, ready) ==
  LET op == "issue"
      rec == store[id]
      conn == ConnCheck(rec.connection_id, ready)
  IN  /\ \E failRetrieve \in RetrieveKinds :
         IF failRetrieve # "none" THEN ErrorStatePathNoRecord(op, id)
         ELSE IF ~Exists(id) THEN Reject(op, id, NotFound, << >>)
         ELSE IF conn = ConnectionNotReady THEN Reject(op, id, conn, << >>)
         ELSE IF conn = NotFound THEN ErrorStatePath(op, id, rec, NotFound)
         ELSE \E fail \in FailKinds :
                LET r == issue_credential(rec, fail)
                IN  IF r.err # OK THEN ErrorStatePath(op, id, rec, r.err)
                    ELSE Put(id, r.rec) /\ Done(op, id, OK, << r.msg >>, 1)
      /\ UNCHANGED << nextId, settings, tasks >>

\* the store route without its acknowledgement
StoreOnly(op, id, rec) ==
  \E credential_id \in CredIds, failStore \in FailKinds :
    LET r1 == store_credential(rec, credential_id, failStore)
    IN  IF r1.err # OK THEN Reject(op, id, r1.err, internal_error(rec))
        ELSE Put(id, r1.rec) /\ Done(op, id, OK, << >>, 1)

\* the acknowledgement is made whether or not the credential was stored
AckDespiteStoreFailure(op, id, rec) ==
  \E credential_id \in CredIds, failStore \in FailKinds :
    LET r1 == store_credential(rec, credential_id, failStore)
    IN  /\ Put(id, [ r1.rec EXCEPT !.state = STATE_ACKED ])
        /\ Done(op, id, OK, << MSG_ACK >>, 1)

\* store_credential, then send_credential_ack; a failure goes to
\* internal_error only (no save_error_state)
StoreAndAck(op, id, rec) ==
  \E credential_id \in CredIds, failStore \in FailKinds :
    LET r1 == store_credential(rec, credential_id, failStore)
    IN  IF r1.err # OK THEN Reject(op, id, r1.err, internal_error(rec))
        ELSE \E failAck \in FailKinds :
               LET r2 == send_credential_ack(r1.rec, failAck)
               IN  IF r2.err # OK
                   THEN /\ Put(id, r1.rec)
                        /\ Done(op, id, r2.err, internal_error(r1.rec), 1)
                   ELSE /\ Put(id, r2.rec)
                        /\ Done(op, id, OK, << r2.msg >>, 2)

credential_exchange_store(id, ready) ==
  LET op == "store"
      rec == store[id]
      conn == ConnCheck(rec.connection_id, ready)
  IN  /\ \E failRetrieve \in RetrieveKinds :
         IF failRetrieve # "none"
         THEN Reject(op, id, StorageFailure, internal_error(NoRec))
         ELSE IF ~Exists(id) THEN Reject(op, id, NotFound, << >>)
         ELSE IF conn = ConnectionNotReady THEN Reject(op, id, conn, << >>)
         ELSE IF conn = NotFound
         THEN Reject(op, id, NotFound, internal_error(rec))
         ELSE StoreAndAck(op, id, rec)
      /\ UNCHANGED << nextId, settings, tasks >>

\* only StorageNotFoundError and StorageError are caught: a state conflict
\* of the manager goes to the caller as it is.  When the retrieval itself
\* raises the storage error, the except clause reads cred_ex_record, which
\* was never bound.
credential_exchange_problem_report(id) ==
  LET op == "problem_report"
      rec == store[id]
  IN  /\ \E failRetrieve \in RetrieveKinds :
         IF failRetrieve # "none"
         THEN Reject(op, id, UnboundLocalError, << >>)
         ELSE IF ~Exists(id) THEN Reject(op, id, NotFound, << >>)
         ELSE \E fail \in { "none", "storage" } :
                LET r == create_problem_report(rec, fail)
                IN  IF r.err = StorageFailure
                    THEN Reject(op, id, r.err, internal_error(rec))
                    ELSE IF r.err # OK THEN Reject(op, id, r.err, << >>)
                    ELSE Put(id, r.rec) /\ Done(op, id, OK, << r.msg >>, 1)
      /\ UNCHANGED << nextId, settings, tasks >>

\* a storage failure of delete_record goes to internal_error with the
\* retrieved record, one of the retrieval with no record
credential_exchange_remove(id) ==
  LET op == "remove"
  IN  /\ \E failRetrieve \in RetrieveKinds :
         IF failRetrieve # "none"
         THEN Reject(op, id, StorageFailure, internal_error(NoRec))
         ELSE IF ~Exists(id) THEN Reject(op, id, NotFound, << >>)
         ELSE \E fail \in { "none", "storage" } :
                IF fail # "none"
                THEN Reject(op, id, FailErr(fail), internal_error(store[id]))
                ELSE Put(id, NoRec) /\ Done(op, id, OK, << >>, 1)
      /\ UNCHANGED << nextId, settings, tasks >>

\* ------------------------------------------------------- inbound handlers
\* no failure of the automatic offer is saved
HandlerSavesNothing(err) == FALSE

\* errors of the automatic offer that the proposal handler saves as an
\* error state (V20CredManagerError, IndyIssuerError, LedgerError)
HandlerSavesError(err) ==
  err \in { StateConflict, RoleMismatch, CryptoOrLedgerFailure }

\* the wrong flag is read
AutoOfferWrongFlag(rec) == rec.auto_issue

\* the offer is made whatever the record's flag
AutoOfferAlways(rec) == TRUE

\* "If auto_offer is enabled, respond immediately with offer"
AutoOfferEnabled(rec) == rec.auto_offer

\* V20CredProposalHandler.handle.  A failure of create_offer is caught:
\* a manager, issuer or ledger error is saved as an error state, a storage
\* error is logged.  The save of the error state runs inside the except
\* clause, so its own storage failure leaves the handler.
V20CredProposalHandler(t, ready) ==
  LET op == "proposal_handler"
      known == ThreadKnown(t)
      id == IF known THEN RecOfThread(t) ELSE nextId
      existing == IF known THEN store[id] ELSE NoRec
  IN  /\ IF ~ready
         THEN Reject(op, 0, ConnectionNotReady, << >>) /\ UNCHANGED nextId
         ELSE /\ known \/ nextId <= MaxRec
              /\ \E proposal \in Payloads :
                   LET r == receive_proposal(existing, ConnId, t, proposal,
                                             settings)
                   IN  IF r.err # OK
                       THEN Reject(op, id, r.err, << >>) /\ UNCHANGED nextId
                       ELSE /\ nextId' = IF known THEN nextId ELSE nextId + 1
                            /\ IF ~AutoOfferEnabled(r.rec)
                               THEN /\ Put(id, r.rec)
                                    /\ Done(op, id, OK, << >>, 1)
                               ELSE \E fail \in FailKinds,
                                       failSave \in { "none", "storage" } :
                                 LET o == create_offer(r.rec, Null, fail)
                                 IN  IF o.err = OK
                                     THEN /\ failSave = "none"
                                          /\ Put(id, o.rec)
                                          /\ Done(op, id, OK, << o.msg >>, 2)
                                     ELSE IF ~HandlerSavesError(o.err)
                                     THEN /\ failSave = "none"
                                          /\ Put(id, r.rec)
                                          /\ DoneQuietly(op, id, o.err,
                                                         << >>, 1)
                                     ELSE IF failSave = "none"
                                     THEN /\ Put(id, save_error_state(r.rec,
                                                       Message(o.err)))
                                          /\ DoneQuietly(op, id, o.err,
                                                         << >>, 2)
                                     ELSE /\ Put(id, r.rec)
                                          /\ Done(op, id, FailErr(failSave),
                                                  << >>, 1)
      /\ UNCHANGED << settings, tasks >>

\* offer handler: the holder's record of the thread, or a new record for a
\* free offer
OfferHandler(t, ready) ==
  LET op == "offer_handler"
      known == ThreadKnown(t)
      id == IF known THEN RecOfThread(t) ELSE nextId
      rec == IF known THEN store[id]
             ELSE NewRec(ConnId, t, INITIATOR_EXTERNAL, ROLE_HOLDER, Null,
                         FALSE, FALSE, FALSE)
  IN  /\ IF ~ready
         THEN Reject(op, 0, ConnectionNotReady, << >>) /\ UNCHANGED nextId
         ELSE /\ known \/ nextId <= MaxRec
              /\ \E offer \in Payloads :
                   LET r == receive_offer(rec, offer)
                   IN  IF r.err # OK
                       THEN Reject(op, id, r.err, << >>) /\ UNCHANGED nextId
                       ELSE /\ Put(id, r.rec)
                            /\ nextId' = IF known THEN nextId ELSE nextId + 1
                            /\ Done(op, id, OK, << >>, 1)
      /\ UNCHANGED << settings, tasks >>

\* the credential is never issued without the operator
AutoIssueNever(rec) == FALSE

\* the process-wide default is read when the request arrives
AutoIssueFromDefault(rec) == settings.auto_issue

\* the automation flag of the step after a received request
AutoIssueEnabled(rec) == rec.auto_issue

\* request handler, with automatic issue when the record's auto_issue is set
RequestHandler(t, ready) ==
  LET op == "request_handler"
      id == RecOfThread(t)
  IN  /\ IF ~ready THEN Reject(op, 0, ConnectionNotReady, << >>)
         ELSE IF ~ThreadKnown(t) THEN Reject(op, 0, NotFound, << >>)
         ELSE \E request \in Payloads :
           LET r == receive_request(store[id], request)
           IN  IF r.err # OK THEN Reject(op, id, r.err, << >>)
               ELSE IF ~AutoIssueEnabled(r.rec)
               THEN Put(id, r.rec) /\ Done(op, id, OK, << >>, 1)
               ELSE \E fail \in FailKinds :
                 LET c == issue_credential(r.rec, fail)
                 IN  IF c.err = OK
                     THEN Put(id, c.rec) /\ Done(op, id, OK, << c.msg >>, 2)
                     ELSE /\ Put(id, save_error_state(r.rec, Message(c.err)))
                          /\ DoneQuietly(op, id, c.err, << >>, 2)
      /\ UNCHANGED << nextId, settings, tasks >>

\* issued-credential handler
IssueHandler(t, ready) ==
  LET op == "issue_handler"
      id == RecOfThread(t)
  IN  /\ IF ~ready THEN Reject(op, 0, ConnectionNotReady, << >>)
         ELSE IF ~ThreadKnown(t) THEN Reject(op, 0, NotFound, << >>)
         ELSE \E credential \in Payloads :
           LET r == receive_credential(store[id], credential)
           IN  IF r.err # OK THEN Reject(op, id, r.err, << >>)
               ELSE Put(id, r.rec) /\ Done(op, id, OK, << >>, 1)
      /\ UNCHANGED << nextId, settings, tasks >>

\* the issuer's side of the final handshake step
receive_credential_ack(rec) ==
  Guarded(rec, ROLE_ISSUER, { STATE_ISSUED }, "none",
    MgrOk(IF rec.auto_remove THEN NoRec
          ELSE [ rec EXCEPT !.state = STATE_ACKED ], Null))

AckHandler(t, ready) ==
  LET op == "ack_handler"
      id == RecOfThread(t)
      r == receive_credential_ack(store[id])
  IN  /\ IF ~ready THEN Reject(op, 0, ConnectionNotReady, << >>)
         ELSE IF ~ThreadKnown(t) THEN Reject(op, 0, NotFound, << >>)
         ELSE IF r.err # OK THEN Reject(op, id, r.err, << >>)
         ELSE Put(id, r.rec) /\ Done(op, id, OK, << >>, 1)
      /\ UNCHANGED << nextId, settings, tasks >>

\* problem-report handler; a report for no known exchange is dropped
ProblemReportHandler(t, ready) ==
  LET op == "problem_report_handler"
      id == RecOfThread(t)
      r == receive_problem_report(store[id])
  IN  /\ IF ~ready THEN Reject(op, 0, ConnectionNotReady, << >>)
         ELSE IF ~ThreadKnown(t) THEN Reject(op, 0, NotFound, << >>)
         ELSE IF r.err # OK THEN Reject(op, id, r.err, << >>)
         ELSE Put(id, r.rec) /\ Done(op, id, OK, << >>, 1)
      /\ UNCHANGED << nextId, settings, tasks >>

\* ------------------------------------------------------------ specification
Next ==
  \/ ChangeSettings
  \/ credential_exchange_create
  \/ \E rdy \in BOOLEAN : credential_exchange_send(rdy)
  \/ \E rdy \in BOOLEAN : credential_exchange_send_proposal(rdy)
  \/ \E rdy \in BOOLEAN : credential_exchange_send_free_offer(rdy)
  \/ credential_exchange_create_free_offer
  \/ \E id \in Ids, rdy \in BOOLEAN :
       credential_exchange_send_bound_offer(id, rdy)
  \/ \E id \in Ids, rdy \in BOOLEAN : credential_exchange_send_request(id, rdy)
  \/ \E id \in Ids, rdy \in BOOLEAN : credential_exchange_issue(id, rdy)
  \/ \E id \in Ids, rdy \in BOOLEAN : credential_exchange_store(id, rdy)
  \/ \E id \in Ids : credential_exchange_problem_report(id)
  \/ \E id \in Ids : credential_exchange_remove(id)
  \/ \E t \in Threads, rdy \in BOOLEAN : V20CredProposalHandler(t, rdy)
  \/ \E t \in AllThreads, rdy \in BOOLEAN : OfferHandler(t, rdy)
  \/ \E t \in AllThreads, rdy \in BOOLEAN : RequestHandler(t, rdy)
  \/ \E t \in AllThreads, rdy \in BOOLEAN : IssueHandler(t, rdy)
  \/ \E t \in AllThreads, rdy \in BOOLEAN : AckHandler(t, rdy)
  \/ \E t \in AllThreads, rdy \in BOOLEAN : ProblemReportHandler(t, rdy)

Spec == Init /\ [][Next]_vars

\* ------------------------------------------------- automated exchange
\* The issuer's send operation followed by what arrives from an automated
\* holder: the holder answers the offer with its request and the issued
\* credential with its acknowledgement, and no operator acts on the record.
\* A message that is in flight is delivered in the end: the request of the
\* holder reaches the request handler while the record waits for it.
DeliverRequest ==
  \E id \in Ids :
    /\ store[id].state = STATE_OFFER_SENT
    /\ RequestHandler(store[id].thread_id, TRUE)

NextAutomated ==
  \/ ChangeSettings
  \/ \E rdy \in BOOLEAN : credential_exchange_send(rdy)
  \/ \E t \in AllThreads, rdy \in BOOLEAN : RequestHandler(t, rdy)
  \/ \E t \in AllThreads, rdy \in BOOLEAN : AckHandler(t, rdy)

SpecAutomated ==
  Init /\ [][NextAutomated]_vars /\ WF_vars(DeliverRequest)

\* ------------------------------------------------- exchanges side by side
\* Several exchanges are in progress in one store: under the odd exchange
\* ids this agent is the issuer and has answered a received proposal with
\* its offer, under the even ones it is the holder and has received the
\* offer for its proposal.  Operations on the records follow in any order.
PairIds == 1 .. MaxPair

PairThread(i) == IF i % 2 = 1 THEN RemoteThreadNames[i] ELSE LocalThread(i)

PairRecord(i, cfg, aRemove) ==
  IF i % 2 = 1
  THEN create_offer(receive_proposal(NoRec, ConnId, PairThread(i), "A",
                                     cfg).rec, Null, "none").rec
  ELSE receive_offer(create_proposal(ConnId, PairThread(i), "A", aRemove,
                                     "none").rec, "A").rec

InitPair ==
  /\ settings \in { cfg \in Settings : ~cfg.auto_offer }
  /\ \E aRemove \in BOOLEAN :
       store = [ i \in PairIds |-> PairRecord(i, settings, aRemove) ]
  /\ nextId = MaxPair + 1
  /\ last = [ op |-> "init", id |-> 0, result |-> OK, sent |-> << >>,
              writes |-> 0, raised |-> FALSE, arg |-> Null, pre |-> NoRec ]
  /\ tasks = [ p \in Procs |-> IdleTask ]

NextPair ==
  \/ \E id \in PairIds, rdy \in BOOLEAN :
       credential_exchange_send_bound_offer(id, rdy)
  \/ \E id \in PairIds, rdy \in BOOLEAN :
       credential_exchange_send_request(id, rdy)
  \/ \E id \in PairIds, rdy \in BOOLEAN : credential_exchange_issue(id, rdy)
  \/ \E id \in PairIds, rdy \in BOOLEAN : credential_exchange_store(id, rdy)
  \/ \E id \in PairIds : credential_exchange_problem_report(id)
  \/ \E id \in PairIds : credential_exchange_remove(id)
  \/ \E id \in PairIds, rdy \in BOOLEAN :
       V20CredProposalHandler(PairThread(id), rdy)
  \/ \E id \in PairIds, rdy \in BOOLEAN : OfferHandler(PairThread(id), rdy)
  \/ \E id \in PairIds, rdy \in BOOLEAN : RequestHandler(PairThread(id), rdy)
  \/ \E id \in PairIds, rdy \in BOOLEAN : IssueHandler(PairThread(id), rdy)
  \/ \E id \in PairIds, rdy \in BOOLEAN : AckHandler(PairThread(id), rdy)
  \/ \E id \in PairIds, rdy \in BOOLEAN :
       ProblemReportHandler(PairThread(id), rdy)

SpecPair == InitPair /\ [][NextPair]_vars

\* ------------------------------------------------- concurrent requests
\* Two tasks of the administrative server work on one stored record.  A
\* route awaits between the session that retrieves the record and the
\* manager call that persists it, so each route is two steps here and the
\* steps of the two tasks interleave.
ConcurrentOps == { "send_bound_offer", "send_request", "issue" }

\* records that the operations above leave in the store, one exchange each:
\* a received proposal, a received offer, a received request
StartRecords ==
  LET proposed(p, cfg) == receive_proposal(NoRec, ConnId, RemoteThreadNames[1],
                                           p, cfg).rec
      offered(p, cfg) == create_offer(proposed(p, cfg), Null, "none").rec
  IN  { proposed(p, cfg) : p \in Payloads,
                           cfg \in { c \in Settings : ~c.auto_offer } }
      \cup { receive_offer(create_proposal(ConnId, LocalThread(1), p, FALSE,
                                           "none").rec, p).rec :
               p \in Payloads }
      \cup { receive_request(offered(p, cfg), p).rec :
               p \in Payloads,
               cfg \in { c \in Settings : ~c.auto_issue } }

InitConcurrent ==
  /\ store \in { [ i \in Ids |-> IF i = 1 THEN r ELSE NoRec ] :
                   r \in StartRecords }
  /\ nextId = 2
  /\ settings \in Settings
  /\ last = [ op |-> "init", id |-> 0, result |-> OK, sent |-> << >>,
              writes |-> 0, raised |-> FALSE, arg |-> Null, pre |-> NoRec ]
  /\ tasks = [ p \in Procs |-> IdleTask ]

\* the manager operation of a route
ManagerCall(op, rec, counter_proposal, fail) ==
  IF op = "send_bound_offer" THEN create_offer(rec, counter_proposal, fail)
  ELSE IF op = "send_request" THEN create_request(rec, fail)
  ELSE issue_credential(rec, fail)

\* a write of task p to record id has landed: the copies that other tasks
\* hold of the record are stale from now on
Landed(p, id, done) ==
  [ q \in Procs |->
      IF q = p THEN done
      ELSE IF tasks[q].pc = "retrieved" /\ tasks[q].id = id
      THEN [ tasks[q] EXCEPT !.stale = TRUE ]
      ELSE tasks[q] ]

\* first step of a route: the session that retrieves the record, tests its
\* state (bound offer) and its connection
Retrieve(p, op, id, ready) ==
  LET rec == store[id]
      conn == ConnCheck(rec.connection_id, ready)
      early == IF ~Exists(id) THEN NotFound
               ELSE IF op = "send_bound_offer" /\ ~BoundOfferStateOk(rec)
               THEN StateConflict
               ELSE conn
      ended(res, sent) ==
        [ IdleTask EXCEPT !.pc = "done", !.op = op, !.id = id, !.rec = rec,
                          !.fail = "early", !.result = res, !.sent = sent ]
  IN  /\ tasks[p].pc = "idle"
      /\ IF early \in { StateConflict, NotFound } /\ Exists(id)
         THEN /\ Put(id, save_error_state(rec, Message(early)))
              /\ tasks' = Landed(p, id, ended(early, internal_error(rec)))
         ELSE IF early # OK
         THEN /\ tasks' = [ tasks EXCEPT ![p] = ended(early, << >>) ]
              /\ UNCHANGED store
         ELSE /\ tasks' = [ tasks EXCEPT ![p] =
                              [ IdleTask EXCEPT !.pc = "retrieved",
                                                !.op = op, !.id = id,
                                                !.rec = rec ] ]
              /\ UNCHANGED store
      /\ UNCHANGED << nextId, settings, last >>

\* what the store does with the write of a stale copy: it takes it (the
\* last writer wins) or refuses it (versioned records)
StaleWrite == { "taken", "refused" }

\* second step of a route: the manager call on the retrieved copy, which
\* persists the copy, and on a failure the except clause with
\* save_error_state on the copy
Complete(p) ==
  LET t == tasks[p]
      ended(f, res, sent) ==
        [ t EXCEPT !.pc = "done", !.fail = f, !.result = res, !.sent = sent ]
  IN  /\ t.pc = "retrieved"
      /\ \E counter_proposal \in Counter, fail \in FailKinds,
            write \in StaleWrite :
           LET r == ManagerCall(t.op, t.rec, counter_proposal, fail)
           IN  IF t.stale /\ write = "refused"
               THEN /\ tasks' = [ tasks EXCEPT ![p] =
                                    ended(fail, StorageFailure, << >>) ]
                    /\ UNCHANGED store
               ELSE /\ write = "taken"
                    /\ IF r.err = OK
                       THEN /\ Put(t.id, r.rec)
                            /\ tasks' = Landed(p, t.id,
                                               ended(fail, OK, << r.msg >>))
                       ELSE /\ Put(t.id,
                                   save_error_state(t.rec, Message(r.err)))
                            /\ tasks' = Landed(p, t.id,
                                               ended(fail, r.err,
                                                     internal_error(t.rec)))
      /\ UNCHANGED << nextId, settings, last >>

NextConcurrent ==
  \/ \E p \in Procs, op \in ConcurrentOps, id \in Ids, rdy \in BOOLEAN :
       Retrieve(p, op, id, rdy)
  \/ \E p \in Procs : Complete(p)

SpecConcurrent == InitConcurrent /\ [][NextConcurrent]_vars

\* ------------------------------------------------------------------ claims
\* the four message snapshots of a record: proposal, offer, request,
\* credential
Snapshots(rec) ==
  << rec.credential_proposal_dict, rec.credential_offer_dict,
     rec.credential_request_dict, rec.credential_dict >>

\* post has snapshot k newly populated and the other three as in pre
Populates(pre, post, k) ==
  /\ Snapshots(pre)[k] = Null
  /\ Snapshots(post)[k] # Null
  /\ \A j \in (1 .. 4) \ { k } : Snapshots(post)[j] = Snapshots(pre)[j]

\* a step of an operation (every operation leaves the settings alone, and
\* a change of the settings is no operation on a record)
OpStep == settings' = settings

\* the last operation was op and ended with a success
Did(op) == last.op = op /\ last.result = OK

\* The transition table, row by row, for the last operation: pre is the
\* stored record before it, post after it.  strict: the proposal snapshot
\* is left alone by every offer.
TransitionTable(strict) ==
  LET pre == last.pre
      post == store[last.id]
      sent == last.sent
  IN
  /\ Did("send_proposal") =>
       /\ pre = NoRec /\ post.state = STATE_PROPOSAL_SENT
       /\ Populates(pre, post, 1)
  /\ (Did("proposal_handler") /\ sent = << >>) =>
       /\ pre = NoRec /\ post.state = STATE_PROPOSAL_RECEIVED
       /\ Populates(pre, post, 1)
  /\ Did("send_free_offer") =>
       /\ pre = NoRec /\ post.state = STATE_OFFER_SENT
       /\ post.credential_offer_dict # Null
       /\ post.credential_request_dict = Null
       /\ post.credential_dict = Null
  /\ Did("send_bound_offer") =>
       /\ pre.state = STATE_PROPOSAL_RECEIVED
       /\ post.state = STATE_OFFER_SENT
       /\ IF strict \/ last.arg = Null
          THEN Populates(pre, post, 2)
          ELSE Populates([ pre EXCEPT !.credential_proposal_dict =
                                        last.arg ], post, 2)
  /\ Did("offer_handler") =>
       /\ pre = NoRec \/ pre.state = STATE_PROPOSAL_SENT
       /\ post.state = STATE_OFFER_RECEIVED
       /\ Populates(pre, post, 2)
  /\ Did("send_request") =>
       /\ pre.state = STATE_OFFER_RECEIVED
       /\ post.state = STATE_REQUEST_SENT
       /\ Populates(pre, post, 3)
  /\ (Did("request_handler") /\ sent = << >>) =>
       /\ pre.state = STATE_OFFER_SENT
       /\ post.state = STATE_REQUEST_RECEIVED
       /\ Populates(pre, post, 3)
  /\ Did("issue") =>
       /\ pre.state = STATE_REQUEST_RECEIVED
       /\ post.state = STATE_ISSUED
       /\ Populates(pre, post, 4)
  /\ Did("issue_handler") =>
       /\ pre.state = STATE_REQUEST_SENT
       /\ post.state = STATE_CREDENTIAL_RECEIVED
       /\ Populates(pre, post, 4)
  \* store_credential alone shows when the acknowledgement after it fails
  /\ (last.op = "store" /\ last.writes = 1) =>
       /\ pre.state = STATE_CREDENTIAL_RECEIVED
       /\ post.state = STATE_CREDENTIAL_RECEIVED
       /\ post.credential_id # Null
       /\ Snapshots(post) = Snapshots(pre)
  /\ Did("store") =>
       /\ pre.state = STATE_CREDENTIAL_RECEIVED
       /\ IF pre.auto_remove THEN post = NoRec
          ELSE /\ post.state = STATE_ACKED
               /\ Snapshots(post) = Snapshots(pre)
  /\ Did("ack_handler") =>
       /\ pre.state = STATE_ISSUED
       /\ IF pre.auto_remove THEN post = NoRec
          ELSE /\ post.state = STATE_ACKED
               /\ Snapshots(post) = Snapshots(pre)
  /\ Did("problem_report") =>
       /\ pre.state \in States \ Terminal
       /\ post.state = STATE_ABANDONED
       /\ Snapshots(post) = Snapshots(pre)

C2_StateConflictNoSideEffect ==
  [][(OpStep /\ last'.result = StateConflict)
       => (store' = store /\ last'.writes = 0)]_vars

\* the operations that call create_offer on an existing record
OfferOps == { "send_bound_offer" }

\* C3: create_offer called twice in succession on the same record succeeds
\* the first time, fails the second time with StateConflict without
\* emitting an offer, and leaves the stored record as the first call left it.
C3_CreateOfferTwice ==
  [][(/\ last.op \in OfferOps /\ last.result = OK
      /\ OpStep /\ last'.op \in OfferOps /\ last'.id = last.id
      /\ last'.result \notin { ConnectionNotReady })
       => (/\ last'.result = StateConflict
           /\ MSG_OFFER \notin { last'.sent[i] : i \in DOMAIN last'.sent }
           /\ store' = store)]_vars

AllSnapshotsSet(rec) == \A k \in 1 .. 4 : Snapshots(rec)[k] # Null

\* C4: a holder record created by create_proposal and driven through
\* receive_offer, create_request, receive_credential, store_credential and
\* send_credential_ack reaches DONE with all four snapshots populated (a
\* record with auto_remove is deleted on reaching DONE).
C4_RoundTrip ==
  LET pre == last.pre
      post == store[last.id]
  IN  (/\ Did("store")
       /\ pre.role = ROLE_HOLDER /\ pre.initiator = INITIATOR_SELF)
        => IF pre.auto_remove THEN post = NoRec /\ AllSnapshotsSet(pre)
           ELSE post.state = STATE_ACKED /\ AllSnapshotsSet(post)

\* the holder's round trip has ended: the acknowledgement is out and the
\* record is done
C4_Witness ==
  /\ last.op = "store" /\ last.result = OK /\ last.sent = << MSG_ACK >>
  /\ store[last.id].state = STATE_ACKED
  /\ store[last.id].initiator = INITIATOR_SELF
  /\ AllSnapshotsSet(store[last.id])

\* C5: when the proposal handler has received a proposal on a ready
\* connection, the record has auto_offer set and no collaborator fails, the
\* handler ends with the record in OFFER_SENT and exactly one offer sent.
C5_AutoOffer ==
  \A id \in Ids :
    (/\ last.op = "proposal_handler" /\ last.id = id /\ last.result = OK
     /\ store[id].auto_offer)
      => (/\ store[id].state = STATE_OFFER_SENT
          /\ store[id].credential_offer_dict # Null
          /\ last.sent = << MSG_OFFER >>)

C5_Witness ==
  /\ last.op = "proposal_handler" /\ last.result = OK
  /\ last.id \in Ids
  /\ store[last.id].auto_offer
  /\ store[last.id].state = STATE_OFFER_SENT

IssuerChain ==
  << STATE_PROPOSAL_RECEIVED, STATE_OFFER_SENT, STATE_REQUEST_RECEIVED,
     STATE_ISSUED, STATE_ACKED >>
HolderChain ==
  << STATE_PROPOSAL_SENT, STATE_OFFER_RECEIVED, STATE_REQUEST_SENT,
     STATE_CREDENTIAL_RECEIVED, STATE_ACKED >>

Forward(chain, a, b) ==
  \E i \in DOMAIN chain, j \in DOMAIN chain :
    chain[i] = a /\ chain[j] = b /\ i < j

Moves(a, b) ==
  \/ a = b
  \/ Forward(IssuerChain, a, b)
  \/ Forward(HolderChain, a, b)
  \/ a \notin Terminal /\ b = STATE_ABANDONED

WriteOnce(k) ==
  \A id \in Ids :
    (Exists(id) /\ store'[id] # NoRec /\ Snapshots(store[id])[k] # Null)
      => Snapshots(store'[id])[k] = Snapshots(store[id])[k]

Identity(rec) == << rec.role, rec.initiator, rec.thread_id >>

\* C11: the role, the initiator and the thread id of a record keep the
\* values they had when the record was first stored, in every step that
\* leaves the record in the store.
C11_IdentityFixed ==
  [][\A id \in Ids :
       (Exists(id) /\ store'[id] # NoRec)
         => Identity(store'[id]) = Identity(store[id])]_vars

\* a record started by the counterparty has been taken two steps on (offer
\* sent, request received) and still says so
C11_Witness ==
  /\ last.op = "request_handler" /\ last.result = OK
  /\ store[last.id].initiator = INITIATOR_EXTERNAL
  /\ store[last.id].role = ROLE_ISSUER
  /\ store[last.id].thread_id \in Threads
  /\ store[last.id].state \in { STATE_REQUEST_RECEIVED, STATE_ISSUED }

\* operations that call an issuer-only or a holder-only manager operation on
\* a stored record
IssuerOnlyOps == { "send_bound_offer", "issue", "request_handler" }
HolderOnlyOps == { "send_request", "store", "offer_handler", "issue_handler" }

\* C12: an issuer-only operation invoked on a holder record, or a
\* holder-only operation invoked on an issuer record, fails with a role
\* mismatch (the role is looked at before the state) and leaves the stored
\* record as it was.
C12_RoleMismatchUnchanged ==
  LET pre == last.pre
  IN  (/\ pre # NoRec
       /\ last.result \notin { NotFound, ConnectionNotReady }
       /\ \/ last.op \in IssuerOnlyOps /\ pre.role = ROLE_HOLDER
          \/ last.op \in HolderOnlyOps /\ pre.role = ROLE_ISSUER)
        => (/\ last.result = RoleMismatch
            /\ store[last.id] = pre
            /\ last.writes = 0)

\* a step of a handler, or of a connection-bound administrative operation
\* on a record that has a connection, taken while the connection is not
\* ready
NotReadyStep ==
  \/ credential_exchange_send(FALSE)
  \/ credential_exchange_send_proposal(FALSE)
  \/ credential_exchange_send_free_offer(FALSE)
  \/ \E id \in Ids :
       /\ Exists(id) /\ store[id].connection_id # Null
       /\ \/ credential_exchange_send_bound_offer(id, FALSE)
          \/ credential_exchange_send_request(id, FALSE)
          \/ credential_exchange_issue(id, FALSE)
          \/ credential_exchange_store(id, FALSE)
  \/ \E t \in Threads : V20CredProposalHandler(t, FALSE)
  \/ \E t \in AllThreads :
       \/ OfferHandler(t, FALSE)
       \/ RequestHandler(t, FALSE)
       \/ IssueHandler(t, FALSE)
       \/ AckHandler(t, FALSE)
       \/ ProblemReportHandler(t, FALSE)

\* C13: when the owning connection is not ready, a handler or a
\* connection-bound administrative operation fails with connection-not-ready:
\* the store is as before, nothing is written and no message is sent.
C13_NotReadyFailsFast ==
  [][NotReadyStep
       => (/\ last'.result = ConnectionNotReady
           /\ store' = store
           /\ last'.writes = 0
           /\ last'.sent = << >>)]_vars

\* C14: a failure during the automatic continuation of the proposal handler
\* (after receive_proposal has stored the record) never leaves the handler.
C14_HandlerCompletes ==
  (last.op = "proposal_handler" /\ last.writes >= 1) => ~last.raised

\* C15: a storage failure raised during an operation is always raised to
\* the operation's caller.
C15_StoragePropagates ==
  last.result = StorageFailure => last.raised

AdminOps ==
  { "create", "send", "send_proposal", "send_free_offer", "send_bound_offer",
    "send_request", "issue", "store", "problem_report" }

\* C16: an administrative operation that fails after its exchange record
\* exists (for another reason than a missing or unready connection) has
\* saved an error state on the record; one that succeeds has persisted the
\* record.
C16_ErrorStateOnFailure ==
  /\ (/\ last.op \in AdminOps /\ last.pre # NoRec
      /\ last.result \notin { OK, NotFound, ConnectionNotReady })
       => store[last.id].error_msg # Null
  /\ (last.op \in AdminOps /\ last.result = OK) => last.writes >= 1

\* C17: of two tasks that run the same operation (bound offer, send
\* request, issue) on the same record, at most one performs the transition
\* and sends the message; the other, when its connection is ready and none
\* of its collaborators fails, ends with StateConflict.
C17_OneUnitWins ==
  \A p \in Procs, q \in Procs :
    (/\ p # q
     /\ tasks[p].pc = "done" /\ tasks[q].pc = "done"
     /\ tasks[p].op = tasks[q].op /\ tasks[p].id = tasks[q].id
     /\ tasks[p].result = OK
     /\ tasks[q].fail \in { "none", "early" }
     /\ tasks[q].result # ConnectionNotReady)
      => (/\ tasks[q].result = StateConflict
          /\ tasks[q].sent \in { << >>, << MSG_PROBLEM_REPORT >> })

Flags(rec) == << rec.auto_offer, rec.auto_issue, rec.auto_remove >>

\* C19: the automation flags of a stored record never change, and whether
\* a handler continues automatically follows the record's flag, whatever
\* the process-wide default is by then.
C19_FlagsFixed ==
  [][/\ \A id \in Ids :
          (Exists(id) /\ store'[id] # NoRec)
            => Flags(store'[id]) = Flags(store[id])
     /\ (last'.op = "request_handler" /\ last'.result = OK)
          => ((last'.sent = << MSG_ISSUE >>) <=> last'.pre.auto_issue)
     /\ (last'.op = "proposal_handler" /\ last'.result = OK)
          => ((last'.sent = << MSG_OFFER >>)
                <=> store'[last'.id].auto_offer)]_vars

\* a record created from a received proposal under a default of automatic
\* issue has issued automatically after the default was switched off
C19_Witness ==
  /\ last.op = "request_handler" /\ last.result = OK
  /\ last.sent = << MSG_ISSUE >>
  /\ last.pre.initiator = INITIATOR_EXTERNAL
  /\ last.pre.auto_issue
  /\ ~settings.auto_issue

\* operations that take a record to done
DoneOps == { "store", "ack_handler" }

C21_FreeOfferNoProposal ==
  LET post == store[last.id]
  IN  Did("send_free_offer")
        => (/\ post.role = ROLE_ISSUER
            /\ post.initiator = INITIATOR_SELF
            /\ post.state = STATE_OFFER_SENT
            /\ post.credential_offer_dict # Null
            /\ post.credential_proposal_dict = Null)

\* C22: create_proposal on the ready connection leaves a new holder record
\* in PROPOSAL_SENT, bound to that connection, with the proposal snapshot
\* populated and the offer, request and credential snapshots null.
C22_CreateProposal ==
  LET post == store[last.id]
  IN  Did("send_proposal")
        => (/\ last.pre = NoRec
            /\ post.role = ROLE_HOLDER
            /\ post.state = STATE_PROPOSAL_SENT
            /\ post.connection_id = ConnId
            /\ post.credential_proposal_dict \in Payloads
            /\ post.credential_offer_dict = Null
            /\ post.credential_request_dict = Null
            /\ post.credential_dict = Null
            /\ last.sent = << MSG_PROPOSAL >>)

\* a proposal has been sent on the connection
C22_Witness ==
  /\ last.op = "send_proposal" /\ last.result = OK
  /\ store[last.id].state = STATE_PROPOSAL_SENT
  /\ store[last.id].connection_id = ConnId
  /\ store[last.id].credential_proposal_dict = "A"

\* the stored record of the last operation, after it
Post == Before(last.id)

\* messages dispatched by the last operation
Sent == { last.sent[i] : i \in 1 .. Len(last.sent) }

\* C24: the proposal handler makes at most one offer per inbound proposal,
\* only after receive_proposal has succeeded on a new record and only when
\* the record's auto_offer is set; without auto_offer it sends nothing and
\* leaves the record in PROPOSAL_RECEIVED.
C24_AutomationAfterReceive ==
  last.op = "proposal_handler"
        => (/\ Len(last.sent) <= 1
            /\ Sent \subseteq { MSG_OFFER }
            /\ last.sent = << MSG_OFFER >>
                 => (/\ last.result = OK
                     /\ last.pre = NoRec
                     /\ last.writes = 2
                     /\ Post.auto_offer
                     /\ Post.state = STATE_OFFER_SENT)
            /\ (last.result = OK /\ ~Post.auto_offer)
                 => (/\ last.sent = << >>
                     /\ last.writes = 1
                     /\ Post.state = STATE_PROPOSAL_RECEIVED)
            /\ last.writes = 0 => (last.sent = << >> /\ Post = last.pre))

\* a proposal was received without auto_offer: the record waits
C24_Witness ==
  /\ last.op = "proposal_handler" /\ last.result = OK
  /\ ~Post.auto_offer
  /\ Post.state = STATE_PROPOSAL_RECEIVED
  /\ last.sent = << >>

\* the routes whose except clause saves the error state
ErrorStateOps == { "send_bound_offer", "send_request", "issue" }

\* the last operation went through the except clause of such a route
ErrorStateSaved ==
  /\ last.op \in ErrorStateOps
  /\ last.result \notin { OK, ConnectionNotReady }
  /\ last.writes = 1

RouteTarget(op) ==
  CASE op = "send_bound_offer" -> STATE_OFFER_SENT
    [] op = "send_request" -> STATE_REQUEST_SENT
    [] OTHER -> STATE_ISSUED

\* C26: the bound-offer, send-request and issue routes dispatch their
\* protocol message exactly when the manager call has succeeded and its new
\* state is persisted; on any failure the message is not dispatched.
C26_DispatchAfterPersist ==
  last.op \in ErrorStateOps
    => (/\ (RouteMessage(last.op) \in Sent) <=> (last.result = OK)
        /\ last.result = OK
             => (/\ last.sent = << RouteMessage(last.op) >>
                 /\ last.writes = 1
                 /\ Post.state = RouteTarget(last.op)
                 /\ Post # last.pre))

\* a request was created, persisted and dispatched
C26_Witness ==
  /\ last.op = "send_request" /\ last.result = OK
  /\ last.sent = << MSG_REQUEST >>
  /\ Post.state = STATE_REQUEST_SENT
  /\ last.pre.state = STATE_OFFER_RECEIVED

C29_AckFollowsStore ==
  /\ \A id \in Ids :
       (store[id].role = ROLE_HOLDER /\ store[id].state = STATE_ACKED)
         => store[id].credential_id # Null
  /\ last.op = "store"
       => (/\ MSG_ACK \in Sent
                => (/\ last.result = OK
                    /\ last.writes = 2
                    /\ last.pre.state = STATE_CREDENTIAL_RECEIVED)
           /\ (last.result # OK /\ last.writes = 0)
                => (MSG_ACK \notin Sent /\ Post = last.pre))

\* store_credential has failed on a received credential
C29_Witness ==
  /\ last.op = "store" /\ last.result = CryptoOrLedgerFailure
  /\ last.writes = 0
  /\ Post.state = STATE_CREDENTIAL_RECEIVED
  /\ Post.credential_id = Null

\* C27: no failure path of the proposal handler or of the bound-offer,
\* send-request and issue routes calls save_error_state on a record
\* reference that is absent.
C27_ErrorStateOnExistingRecord ==
  last.op \in ErrorStateOps \cup { "proposal_handler" }
    => last.result # AttributeError

\* C30: an operation on the record of one exchange id, whether it succeeds
\* or fails, leaves the stored record of every other exchange id as it was.
C30_Isolation ==
  [][\A id \in DOMAIN store :
       id # last'.id => store'[id] = store[id]]_vars

\* both exchanges have moved on, one after the other
C30_Witness ==
  \E i, j \in DOMAIN store :
    /\ i # j
    /\ last.id = j /\ last.result = OK /\ last.op = "send_request"
    /\ store[j].state = STATE_REQUEST_SENT
    /\ store[i].state = STATE_ISSUED

\* the send operation has succeeded and its record, under exchange id id,
\* has automatic issue set
SentAutomated(id) ==
  /\ last.op = "send" /\ last.result = OK /\ last.id = id
  /\ store[id].auto_issue

\* the issuer's record is in CREDENTIAL_ISSUED or later
IssuedOrLater(id) ==
  /\ store[id].role = ROLE_ISSUER
  /\ store[id].state \in { STATE_ISSUED, STATE_ACKED }

\* a collaborator has failed during the automatic continuation
ContinuationFailed(id) == store[id].error_msg # Null

\* C23: after a successful send with automatic issue set, and with the
\* holder's request delivered in the end, the issuer's record reaches
\* CREDENTIAL_ISSUED or later unless a collaborator fails; a record whose
\* issue is not automated stops at REQUEST_RECEIVED and keeps that state.
C23_AutomatedIssue ==
  /\ \A id \in Ids :
       SentAutomated(id) ~> (IssuedOrLater(id) \/ ContinuationFailed(id))
  /\ [](\A id \in Ids :
          (Exists(id) /\ ~store[id].auto_issue)
            => store[id].state \in { STATE_OFFER_SENT,
                                     STATE_REQUEST_RECEIVED })
  /\ [](last.op = "request_handler" /\ last.result = OK
          /\ ~last.pre.auto_issue
          => Post.state = STATE_REQUEST_RECEIVED /\ last.sent = << >>)

\* the credential was issued without an operator, on the record of a send
C23_Witness ==
  /\ last.op = "request_handler" /\ last.result = OK
  /\ last.sent = << MSG_ISSUE >>
  /\ last.pre.initiator = INITIATOR_SELF
  /\ last.pre.state = STATE_OFFER_SENT
  /\ Post.state = STATE_ISSUED
  /\ Post.error_msg = Null

\* the routes that make a free offer
FreeOfferOps == { "create_free_offer", "send_free_offer" }

\* C31: the auto_issue flag of a new free-offer record is the value of the
\* request when the request has one, and the process-wide default only
\* when it has none.
C31_AutoIssueFromRequest ==
  [][(/\ OpStep
      /\ last'.op \in FreeOfferOps
      /\ last'.result = OK)
       => store'[last'.id].auto_issue =
            (IF last'.arg = "absent" THEN settings.auto_issue
             ELSE last'.arg = "true")]_vars

\* the request said false while the default was true
C31_Witness ==
  /\ last.op = "create_free_offer" /\ last.result = OK
  /\ last.arg = "false"
  /\ settings.auto_issue
  /\ ~Post.auto_issue

\* operations that create a record on a connection: the routes that send
\* the first message, and the handlers of a first message received
ConnectionBoundOps ==
  { "send", "send_proposal", "send_free_offer", "proposal_handler",
    "offer_handler" }

\* C32: a stored record without a connection is an offer of this agent as
\* issuer, started by itself; a record created by a connection-bound
\* operation or by a handler has a connection.
C32_NullConnectionOnlyFreeOffer ==
  /\ \A id \in Ids :
       (Exists(id) /\ store[id].connection_id = Null)
         => (/\ store[id].role = ROLE_ISSUER
             /\ store[id].initiator = INITIATOR_SELF
             /\ store[id].credential_offer_dict # Null)
  /\ (/\ last.op \in ConnectionBoundOps
      /\ last.result = OK
      /\ last.pre = NoRec)
       => Post.connection_id = ConnId

\* a free offer was created with no connection
C32_Witness ==
  /\ last.op = "create_free_offer" /\ last.result = OK
  /\ Post.connection_id = Null
  /\ Post.state = STATE_OFFER_SENT
  /\ Post.role = ROLE_ISSUER

====
